---- MODULE Spec2Model ----
(***************************************************************************)
(* Model of multirun (src/main.go): a supervisor that launches one child   *)
(* per command, waits for exit events and signals, broadcasts one shutdown *)
(* signal, and aggregates the children's outcomes into its exit code.      *)
(*                                                                         *)
(* A command string is a sequence of one-character strings.  A child is    *)
(* identified by the index of its command in the list; its process id is   *)
(* chosen by the operating system at spawn time among the ids that no      *)
(* unreaped child holds.  A run is observed until the supervisor exits.    *)
(* SIGINT/SIGTERM are delivered to the supervisor only once signal.Notify  *)
(* has registered the channel (main.go:137).                               *)
(***************************************************************************)
EXTENDS Integers, Sequences, FiniteSets, TLC

\* ---------------------------------------------------------------- bounds
MaxCmds == 2
MaxPid == 3
MaxSignals == 2
MaxLen == 4
MaxStatus == 31

\* ------------------------------------------------------ program constants
SIGINT == 2
SIGTERM == 15
ExitChanCap == 1
SigChanCap == 1

\* signals other than the two the supervisor relays, that may kill a child
OtherSignals == {9}
ExitCodes == {0, 1}
\* the longest command list: the lists of Spec hold up to MaxCmds commands,
\* those of SpecL may hold one more
MaxList == MaxCmds + 1
Slots == 1..MaxList
\* process ids: as many as the longest list has commands, so that an id no
\* child has held is there for every spawn
PIDS == 1..MaxPid
TermSignals == {SIGINT, SIGTERM}

\* ------------------------------------------------------------- isChained
Alphabet == {"a", "\\", "'", "\"", ";", "|", "&"}
Quotes == {"'", "\""}
Operators == {";", "|", "&"}
NoQuote == "0"

RECURSIVE StringsOfLen(_)
StringsOfLen(n) ==
  IF n = 0 THEN {<<>>}
  ELSE {Append(s, c) : s \in StringsOfLen(n - 1), c \in Alphabet}

Strings == UNION {StringsOfLen(n) : n \in 0..MaxLen}

\* the word '\' : to sh, a single-quoted span holding one backslash
BackslashWord == <<"'", "\\", "'">>

\* the command strings given to the validator: every string over the
\* alphabet up to MaxLen, alone or following the word '\'
Inputs == Strings \cup {BackslashWord \o s : s \in Strings}

\* the scan with the quote test placed before the escape test
RECURSIVE isChainedFrom_escapeOutside(_, _, _, _)
isChainedFrom_escapeOutside(command, i, inQuote, escaped) ==
  IF i > Len(command) THEN FALSE
  ELSE LET r == command[i] IN
    IF escaped THEN isChainedFrom_escapeOutside(command, i + 1, inQuote, FALSE)
    ELSE IF inQuote # NoQuote
      THEN isChainedFrom_escapeOutside(command, i + 1,
                                       IF r = inQuote THEN NoQuote ELSE inQuote, FALSE)
    ELSE IF r = "\\" THEN isChainedFrom_escapeOutside(command, i + 1, inQuote, TRUE)
    ELSE IF r \in Quotes THEN isChainedFrom_escapeOutside(command, i + 1, r, FALSE)
    ELSE IF r \in Operators THEN TRUE
    ELSE isChainedFrom_escapeOutside(command, i + 1, inQuote, FALSE)

\* the loop body of isChained from position i on, with the two locals
RECURSIVE isChainedFrom(_, _, _, _)
isChainedFrom(command, i, inQuote, escaped) ==
  IF i > Len(command) THEN FALSE
  ELSE LET r == command[i] IN
    IF escaped THEN isChainedFrom(command, i + 1, inQuote, FALSE)
    ELSE IF r = "\\" THEN isChainedFrom(command, i + 1, inQuote, TRUE)
    ELSE IF inQuote # NoQuote
      THEN isChainedFrom(command, i + 1, IF r = inQuote THEN NoQuote ELSE inQuote, FALSE)
    ELSE IF r \in Quotes THEN isChainedFrom(command, i + 1, r, FALSE)
    ELSE IF r \in Operators THEN TRUE
    ELSE isChainedFrom(command, i + 1, inQuote, FALSE)

isChained(command) == isChainedFrom(command, 1, NoQuote, FALSE)

\* ----------------------------------------------------------- isNormalExit
\* An error value returned by cmd.Wait or stored in subprocess.err.
NilErr == [kind |-> "nil", n |-> 0]
AbnormalExitErr == [kind |-> "abnormal exit", n |-> 0]
ExitedErr(code) == [kind |-> "exited", n |-> code]
SignaledErr(sig) == [kind |-> "signaled", n |-> sig]
StoppedErr == [kind |-> "stopped", n |-> 0]
OtherErr == [kind |-> "other", n |-> 0]

\* kinds that are an *exec.ExitError carrying a syscall.WaitStatus
ExitErrorKinds == {"exited", "signaled", "stopped"}

isNormalExit_codeOnly(e) ==
  IF e.kind = "nil" THEN TRUE
  ELSE IF e.kind = "exited" THEN e.n = 0
  ELSE FALSE

isNormalExit(e) ==
  IF e.kind = "nil" THEN TRUE
  ELSE IF e.kind \notin ExitErrorKinds THEN FALSE
  ELSE IF e.kind = "exited" THEN e.n = 0
  ELSE IF e.kind = "signaled" THEN e.n = SIGINT \/ e.n = SIGTERM
  ELSE FALSE

\* what cmd.Wait returns for a termination: nil for exit status 0
WaitErr(term) == IF term.kind = "exited" /\ term.n = 0 THEN NilErr ELSE term

\* ------------------------------------------------------------------ state
VARIABLES
  commands,          \* flag.Args()
  pc,                \* position of main
  idx,               \* index of the next command in startSubprocesses
  proc,              \* the subprocess structs, by command index
  subprocesses,      \* app.subprocesses: pid -> subprocess (command index)
  child,             \* the operating system's view of each child
  waiter,            \* position of each child's waiter goroutine
  exitChan,          \* app.exitChan
  sigChan,           \* app.sigChan
  runningProcesses,  \* local of handleEvents
  closing,           \* local of handleEvents
  exitCode,          \* argument of os.Exit, or NoCode
  broadcasts,        \* history: the calls of shutdown, with the Kill calls made
  delivered,         \* history: number of signals delivered to the supervisor
  vin,               \* validator run: the input string
  vout               \* validator run: "true" or "false", the result, or "unset"

vars == <<commands, pc, idx, proc, subprocesses, child, waiter, exitChan,
          sigChan, runningProcesses, closing, exitCode, broadcasts, delivered,
          vin, vout>>

supVars == <<commands, pc, idx, proc, subprocesses, child, waiter, exitChan,
             sigChan, runningProcesses, closing, exitCode, broadcasts, delivered>>

\* the value of exitCode while os.Exit has not been called
NoCode == 0 - 1

\* command strings a run may be given: one whose only operator is quoted,
\* and a chained one
QuotedCmd == <<"a", "'", "&", "'">>
ChainedCmd == <<"a", ";", "a">>
CommandPool == {QuotedCmd, ChainedCmd}

RECURSIVE ListsOfLen(_)
ListsOfLen(n) ==
  IF n = 0 THEN {<<>>}
  ELSE {Append(l, c) : l \in ListsOfLen(n - 1), c \in CommandPool}

CommandLists == UNION {ListsOfLen(n) : n \in 0..MaxCmds}

Terminal == {"usage", "rejected", "nostart", "finished"}
Exited == pc \in Terminal

InitProc == [pid |-> 0, up |-> FALSE, err |-> NilErr]
InitChild == [state |-> "none", got |-> {}, term |-> NilErr]

InitSup ==
  /\ pc = "main"
  /\ idx = 1
  /\ proc = [i \in Slots |-> InitProc]
  /\ subprocesses = <<>>
  /\ child = [i \in Slots |-> InitChild]
  /\ waiter = [i \in Slots |-> "none"]
  /\ exitChan = <<>>
  /\ sigChan = <<>>
  /\ runningProcesses = 0
  /\ closing = FALSE
  /\ exitCode = NoCode
  /\ broadcasts = <<>>
  /\ delivered = 0

Init ==
  /\ commands \in CommandLists
  /\ InitSup
  /\ vin = <<>>
  /\ vout = "unset"


\* --------------------------------------------------------------- shutdown
\* the pids shutdown calls syscall.Kill(-pid, signal) for: the keys of the
\* map whose subprocess is marked up
shutdownPids_all(subs, procNow) == DOMAIN subs

shutdownPids(subs, procNow) ==
  {p \in DOMAIN subs : procNow[subs[p]].up}

\* the signal a broadcast caused by a child's exit sends
exitBroadcastSignal == SIGTERM

\* the signal a broadcast caused by a received signal sends
forwardedSignal_fixed(sig) == SIGTERM

forwardedSignal(sig) == sig

\* syscall.Kill(-pid, sig) for every pid of the set: a running group leader
\* receives the signal; a terminated or reaped one is unaffected (ESRCH)
killAll(pids, sig) ==
  [i \in Slots |->
     IF /\ \E p \in pids : subprocesses[p] = i
        /\ child[i].state = "running"
     THEN [child[i] EXCEPT !.got = @ \cup {sig}]
     ELSE child[i]]

shutdown(sig, procNow, cause, by) ==
  LET pids == shutdownPids(subprocesses, procNow) IN
  /\ child' = killAll(pids, sig)
  /\ broadcasts' = Append(broadcasts,
        [sig |-> sig, cause |-> cause, by |-> by, pids |-> pids])

\* ------------------------------------------------------------------- main
\* main.go:72-76
Usage ==
  /\ pc = "main"
  /\ Len(commands) = 0
  /\ pc' = "usage"
  /\ exitCode' = 2
  /\ UNCHANGED <<commands, idx, proc, subprocesses, child, waiter, exitChan,
                 sigChan, runningProcesses, closing, broadcasts, delivered,
                 vin, vout>>

\* main.go:78: the call of startSubprocesses
CallStart ==
  /\ pc = "main"
  /\ Len(commands) > 0
  /\ pc' = "launch"
  /\ UNCHANGED <<commands, idx, proc, subprocesses, child, waiter, exitChan,
                 sigChan, runningProcesses, closing, exitCode, broadcasts,
                 delivered, vin, vout>>

Launching == pc = "launch" /\ idx <= Len(commands)

rejects_none(command) == FALSE

\* does the launch loop reject this command
rejects(command) == isChained(command)

\* main.go:102-104 and 78-81: a chained command ends the launch and the run
RejectChained ==
  /\ Launching
  /\ rejects(commands[idx])
  /\ pc' = "rejected"
  /\ exitCode' = 2
  /\ UNCHANGED <<commands, idx, proc, subprocesses, child, waiter, exitChan,
                 sigChan, runningProcesses, closing, broadcasts, delivered,
                 vin, vout>>

\* process ids held by a child that has not been reaped
HeldPids == {proc[i].pid : i \in {j \in Slots : child[j].state \in {"running", "zombie"}}}

\* process ids given to a child so far
UsedPids == {proc[i].pid : i \in {j \in Slots : child[j].state # "none"}}

\* the ids the operating system may give the next child: one no unreaped
\* child holds. Ids are opaque, so among the ids never used only the
\* smallest is considered; an id whose holder was reaped may be used again.
FreePids ==
  {p \in PIDS \ HeldPids :
     p \in UsedPids \/ \A q \in PIDS \ UsedPids : p <= q}

\* main.go:106-129: cmd.Start succeeds with process id pid
SpawnOk(pid) ==
  /\ Launching
  /\ ~rejects(commands[idx])
  /\ pid \in FreePids
  /\ proc' = [proc EXCEPT ![idx] =
        [pid |-> pid, up |-> TRUE, err |-> NilErr]]
  /\ subprocesses' = (pid :> idx) @@ subprocesses
  /\ child' = [child EXCEPT ![idx] = [state |-> "running", got |-> {}, term |-> NilErr]]
  /\ waiter' = [waiter EXCEPT ![idx] = "waiting"]
  /\ idx' = idx + 1
  /\ UNCHANGED <<commands, pc, exitChan, sigChan, runningProcesses, closing,
                 exitCode, broadcasts, delivered, vin, vout>>

\* main.go:116-119: cmd.Start fails, the command is skipped
SpawnFail ==
  /\ Launching
  /\ ~rejects(commands[idx])
  /\ idx' = idx + 1
  /\ UNCHANGED <<commands, pc, proc, subprocesses, child, waiter, exitChan, sigChan,
                 runningProcesses, closing, exitCode, broadcasts, delivered,
                 vin, vout>>

LaunchReturned == pc = "launch" /\ idx > Len(commands)

noProcesses_never(subs) == FALSE

\* main.go:83: len(app.subprocesses) == 0
noProcesses(subs) == Cardinality(DOMAIN subs) = 0

\* main.go:83-86
NoneStarted ==
  /\ LaunchReturned
  /\ noProcesses(subprocesses)
  /\ pc' = "nostart"
  /\ exitCode' = 1
  /\ UNCHANGED <<commands, idx, proc, subprocesses, child, waiter, exitChan,
                 sigChan, runningProcesses, closing, broadcasts, delivered,
                 vin, vout>>

\* main.go:88 and 137-140: handleEvents is entered
EnterLoop ==
  /\ LaunchReturned
  /\ ~noProcesses(subprocesses)
  /\ pc' = "loop"
  /\ runningProcesses' = Cardinality(DOMAIN subprocesses)
  /\ closing' = FALSE
  /\ UNCHANGED <<commands, idx, proc, subprocesses, child, waiter, exitChan,
                 sigChan, exitCode, broadcasts, delivered, vin, vout>>

\* ------------------------------------------------- children and waiters
\* the ways a running child can end: by exiting, by a signal it was sent,
\* or by a signal from elsewhere
ChildTerms(i) ==
  {ExitedErr(c) : c \in ExitCodes}
    \cup {SignaledErr(s) : s \in child[i].got \cup OtherSignals}

ChildTerminate(i, term) ==
  /\ ~Exited
  /\ child[i].state = "running"
  /\ term \in ChildTerms(i)
  /\ child' = [child EXCEPT ![i].state = "zombie", ![i].term = term]
  /\ UNCHANGED <<commands, pc, idx, proc, subprocesses, waiter, exitChan,
                 sigChan, runningProcesses, closing, exitCode, broadcasts,
                 delivered, vin, vout>>

\* main.go:127: p.cmd.Wait() returns, the child is reaped
WaiterWait(i) ==
  /\ ~Exited
  /\ waiter[i] = "waiting"
  /\ child[i].state = "zombie"
  /\ child' = [child EXCEPT ![i].state = "reaped"]
  /\ proc' = [proc EXCEPT ![i].err = WaitErr(child[i].term)]
  /\ waiter' = [waiter EXCEPT ![i] = "sending"]
  /\ UNCHANGED <<commands, pc, idx, subprocesses, exitChan, sigChan,
                 runningProcesses, closing, exitCode, broadcasts, delivered,
                 vin, vout>>

\* main.go:128: app.exitChan <- p
WaiterSend(i) ==
  /\ ~Exited
  /\ waiter[i] = "sending"
  /\ Len(exitChan) < ExitChanCap
  /\ exitChan' = Append(exitChan, i)
  /\ waiter' = [waiter EXCEPT ![i] = "done"]
  /\ UNCHANGED <<commands, pc, idx, proc, subprocesses, child, sigChan,
                 runningProcesses, closing, exitCode, broadcasts, delivered,
                 vin, vout>>

\* the runtime delivers SIGINT or SIGTERM to the channel registered at
\* main.go:137; the send does not block, a signal is dropped when the
\* channel is full
ReceiveSignal(sig) ==
  /\ pc = "loop"
  /\ delivered < MaxSignals
  /\ delivered' = delivered + 1
  /\ sigChan' = IF Len(sigChan) < SigChanCap THEN Append(sigChan, sig) ELSE sigChan
  /\ UNCHANGED <<commands, pc, idx, proc, subprocesses, child, waiter,
                 exitChan, runningProcesses, closing, exitCode, broadcasts,
                 vin, vout>>

\* ----------------------------------------------------------- handleEvents
\* main.go:156 and 163: if !closing
shutdownNeeded_always(isClosing) == TRUE

shutdownNeeded(isClosing) == ~isClosing

InLoop == pc = "loop" /\ runningProcesses > 0

\* the error stored for a completed child, main.go:148-154
classify(e) == IF ~isNormalExit(e) THEN AbnormalExitErr ELSE NilErr

\* main.go:144-160: case proc := <-app.exitChan
HandleExit ==
  /\ InLoop
  /\ exitChan # <<>>
  /\ LET i == Head(exitChan)
         procNow == [proc EXCEPT ![i].up = FALSE, ![i].err = classify(proc[i].err)]
     IN /\ exitChan' = Tail(exitChan)
        /\ runningProcesses' = runningProcesses - 1
        /\ proc' = procNow
        /\ IF shutdownNeeded(closing)
           THEN /\ closing' = TRUE
                /\ shutdown(exitBroadcastSignal, procNow, "exit", i)
           ELSE UNCHANGED <<closing, child, broadcasts>>
  /\ UNCHANGED <<commands, pc, idx, subprocesses, waiter, sigChan, exitCode,
                 delivered, vin, vout>>

\* main.go:162-167: case sig := <-app.sigChan
HandleSignal ==
  /\ InLoop
  /\ sigChan # <<>>
  /\ sigChan' = Tail(sigChan)
  /\ IF shutdownNeeded(closing)
     THEN /\ closing' = TRUE
          /\ shutdown(forwardedSignal(Head(sigChan)), proc, "signal", 0)
     ELSE UNCHANGED <<closing, child, broadcasts>>
  /\ UNCHANGED <<commands, pc, idx, proc, subprocesses, waiter, exitChan,
                 runningProcesses, exitCode, delivered, vin, vout>>

\* main.go:171-176: the scan of the map after the loop
hadErrors ==
  \E p \in DOMAIN subprocesses : proc[subprocesses[p]].err # NilErr

\* main.go:142 (loop condition false), 171-176 and 90-96
Finish ==
  /\ pc = "loop"
  /\ runningProcesses <= 0
  /\ pc' = "finished"
  /\ exitCode' = IF hadErrors THEN 1 ELSE 0
  /\ UNCHANGED <<commands, idx, proc, subprocesses, child, waiter, exitChan,
                 sigChan, runningProcesses, closing, broadcasts, delivered,
                 vin, vout>>

Next ==
  \/ Usage
  \/ CallStart
  \/ RejectChained
  \/ \E pid \in PIDS : SpawnOk(pid)
  \/ SpawnFail
  \/ NoneStarted
  \/ EnterLoop
  \/ \E i \in Slots : \E term \in ChildTerms(i) : ChildTerminate(i, term)
  \/ \E i \in Slots : WaiterWait(i)
  \/ \E i \in Slots : WaiterSend(i)
  \/ \E sig \in TermSignals : ReceiveSignal(sig)
  \/ HandleExit
  \/ HandleSignal
  \/ Finish

Spec == Init /\ [][Next]_vars

\* ----------------------------------------------------------- scheduling
\* The main goroutine runs on: no step of main, startSubprocesses or the
\* end of handleEvents waits for anything.
MainStep ==
  \/ Usage
  \/ CallStart
  \/ RejectChained
  \/ \E pid \in PIDS : SpawnOk(pid)
  \/ SpawnFail
  \/ NoneStarted
  \/ EnterLoop
  \/ Finish

\* The select of main.go:143 takes a ready case, and picks among several
\* ready cases at random, so neither case stays ready for ever untaken.
\* Each waiter goroutine is scheduled: Wait returns once the child has
\* terminated, and the send goes through once the channel has room.
\* The last conjunct is the hypothesis that every launched child
\* terminates.
Fairness ==
  /\ WF_vars(MainStep)
  /\ WF_vars(HandleExit)
  /\ WF_vars(HandleSignal)
  /\ \A i \in Slots : WF_vars(WaiterWait(i))
  /\ \A i \in Slots : WF_vars(WaiterSend(i))
  /\ \A i \in Slots : WF_vars(\E term \in ChildTerms(i) : ChildTerminate(i, term))

FairSpec == Spec /\ Fairness

\* ------------------------------------------------- longer command lists
\* The runs of Spec and, besides, the runs on a list of MaxList commands:
\* long enough for a command whose spawn fails next to two that spawn.
LongLists == CommandLists \cup ListsOfLen(MaxList)

InitL ==
  /\ commands \in LongLists
  /\ InitSup
  /\ vin = <<>>
  /\ vout = "unset"

SpecL == InitL /\ [][Next]_vars

\* ---------------------------------------------------------- validator run
\* a run that applies isChained to one input string
InitV ==
  /\ commands = <<>>
  /\ InitSup
  /\ vin \in Inputs
  /\ vout = "unset"

Validate ==
  /\ vout = "unset"
  /\ vout' = IF isChained(vin) THEN "true" ELSE "false"
  /\ UNCHANGED <<supVars, vin>>

NextV == Validate

SpecV == InitV /\ [][NextV]_vars

\* ------------------------------------------- isNormalExit as a function
\* The error values isNormalExit can be handed: nil, an *exec.ExitError
\* whose wait status is exited (with a status code), signaled (with the
\* killing signal) or stopped (with the stopping signal), and an error
\* that is not an *exec.ExitError.
ErrorValues ==
  {NilErr, OtherErr}
    \cup {ExitedErr(c) : c \in 0..MaxStatus}
    \cup {SignaledErr(g) : g \in 1..MaxStatus}
    \cup {[kind |-> "stopped", n |-> g] : g \in 1..MaxStatus}

InitN ==
  /\ commands = <<>>
  /\ InitSup
  /\ vin \in ErrorValues
  /\ vout = "unset"

ApplyIsNormalExit ==
  /\ vout = "unset"
  /\ vout' = IF isNormalExit(vin) THEN "true" ELSE "false"
  /\ UNCHANGED <<supVars, vin>>

NextN == ApplyIsNormalExit

SpecN == InitN /\ [][NextN]_vars

\* ================================================================ claims
\* the steps of the coordinator, recognised by what only they change
ExitEventStep == pc = "loop" /\ runningProcesses' = runningProcesses - 1
SignalEventStep == pc = "loop" /\ sigChan # <<>> /\ sigChan' = Tail(sigChan)

\* the entries of the map marked up, other than subprocess i
UpEntriesBut(i) ==
  {p \in DOMAIN subprocesses : subprocesses[p] # i /\ proc[subprocesses[p]].up}

Started == {i \in Slots : child[i].state # "none"}

\* the broadcast this step makes sends sig to exactly the pids of the set,
\* and every running child among them has received it
BroadcastsNow(sig, pids) ==
  /\ Len(broadcasts') = Len(broadcasts) + 1
  /\ broadcasts'[Len(broadcasts')].sig = sig
  /\ broadcasts'[Len(broadcasts')].pids = pids
  /\ \A p \in pids :
       child[subprocesses[p]].state = "running" => sig \in child'[subprocesses[p]].got

\* C1: when the first completion event is processed while no shutdown has
\* been issued, whatever the child's exit status, SIGTERM is sent to the
\* process group of every other subprocess recorded in the map and marked
\* up, and no signal is sent to the subprocess that just exited.
C1_FirstExitSendsSIGTERMToOthers ==
  [][(ExitEventStep /\ ~closing) =>
       LET i == Head(exitChan) IN
         /\ BroadcastsNow(SIGTERM, UpEntriesBut(i))
         /\ closing'
         /\ child'[i] = child[i]]_vars

\* C1 witness: a child's exit caused a broadcast that reached another child
C1_Witness ==
  /\ Len(broadcasts) = 1
  /\ broadcasts[1].cause = "exit"
  /\ \E i \in Slots : i # broadcasts[1].by /\ SIGTERM \in child[i].got

\* C3: the coordinator invokes the shutdown broadcast at most once in a
\* run; once closing is true it stays true, and no later completion event
\* or signal makes another broadcast.
C3_AtMostOneBroadcast ==
  /\ [](Len(broadcasts) <= 1)
  /\ [][(pc = "loop" /\ closing) => (closing' /\ broadcasts' = broadcasts)]_vars

\* C3 witness: a run that ended after one broadcast, although a signal and
\* the exits of two children were processed
C3_Witness ==
  /\ pc = "finished"
  /\ Len(broadcasts) = 1
  /\ delivered > 0
  /\ sigChan = <<>>
  /\ Cardinality({i \in Started : ~proc[i].up}) >= 2

\* C5: a SIGINT or SIGTERM taken from the signal channel while no shutdown
\* has been issued sets closing and sends exactly that signal to the
\* process group of every subprocess recorded in the map and marked up.
C5_SignalForwardedWhenNotClosing ==
  [][(SignalEventStep /\ ~closing) =>
       /\ closing'
       /\ BroadcastsNow(Head(sigChan), UpEntriesBut(0))]_vars

\* C5 witness: SIGINT was forwarded to a child
C5_Witness ==
  /\ Len(broadcasts) = 1
  /\ broadcasts[1].cause = "signal"
  /\ broadcasts[1].sig = SIGINT
  /\ \E i \in Slots : SIGINT \in child[i].got


\* C2: at the moment of any supervisor exit, whatever the exit code, every
\* child it spawned has terminated and been reaped.
C2_ExitsOnlyAfterAllReaped ==
  Exited => \A i \in Slots : child[i].state \in {"none", "reaped"}

\* the outcome the loop recorded for a launched child is abnormal
OutcomeAbnormal(i) == i \in Started /\ ~proc[i].up /\ proc[i].err = AbnormalExitErr

\* C4: after the supervision loop the exit code is 1 if and only if at
\* least one launched child's outcome is abnormal, and 0 otherwise.
C4_VerdictIffAbnormalChild ==
  pc = "finished" =>
    /\ exitCode \in {0, 1}
    /\ exitCode = 1 <=> \E i \in Slots : OutcomeAbnormal(i)

\* C6 as stated: every SIGINT or SIGTERM the supervisor takes while
\* children are alive is sent, as that same signal, to every alive child's
\* process group.
C6_EverySignalForwarded ==
  [][(SignalEventStep /\ UpEntriesBut(0) # {}) =>
       BroadcastsNow(Head(sigChan), UpEntriesBut(0))]_vars

\* C6 amended: a signal taken from the channel while no shutdown has been
\* issued is sent verbatim to every subprocess of the map marked up; a
\* signal taken after a shutdown was issued is sent to no child.
C6_OnlyFirstSignalForwarded ==
  [][SignalEventStep =>
       IF ~closing
       THEN BroadcastsNow(Head(sigChan), UpEntriesBut(0))
       ELSE /\ broadcasts' = broadcasts
            /\ child' = child
            /\ closing']_vars

\* C6 witness: a signal was taken and not forwarded, because a child's
\* exit had already caused the broadcast, while another child is still up
C6_Witness ==
  /\ pc = "loop"
  /\ Len(broadcasts) = 1
  /\ broadcasts[1].cause = "exit"
  /\ delivered > 0
  /\ sigChan = <<>>
  /\ UpEntriesBut(0) # {}

\* every launched child was terminated by the signal the broadcast sent
AllKilledByForwarded ==
  \A i \in Started : child[i].term = SignaledErr(broadcasts[1].sig)

\* C7: if the broadcast was caused by a received signal and every child
\* then terminates by the forwarded signal, every child's outcome is
\* normal and the supervisor exits with code 0.
C7_ForwardedSignalExitZero ==
  (/\ pc = "finished"
   /\ Len(broadcasts) = 1
   /\ broadcasts[1].cause = "signal"
   /\ AllKilledByForwarded)
    => /\ exitCode = 0
       /\ \A i \in Started : ~proc[i].up /\ proc[i].err = NilErr

\* C7 witness: two children killed by the forwarded signal, exit code 0
C7_Witness ==
  /\ pc = "finished"
  /\ Len(broadcasts) = 1
  /\ broadcasts[1].cause = "signal"
  /\ Cardinality(Started) >= 2
  /\ AllKilledByForwarded
  /\ exitCode = 0

HasChained == \E k \in 1..Len(commands) : commands[k] = ChainedCmd

\* C8: if any command of the list is chained, no child process is started
\* for any command, the ones before the chained one included.
C8_ChainedSpawnsNothing ==
  HasChained => \A i \in Slots : child[i].state = "none"

\* C9: if any command is chained, at any position, the supervision loop is
\* never entered and the supervisor exits with code 2; exit code 2 comes
\* only from this rejection or from an empty command list.
C9_ChainedExitsTwo ==
  /\ HasChained => pc \in {"main", "launch", "rejected"}
  /\ (HasChained /\ Exited) => exitCode = 2
  /\ exitCode = 2 => \/ pc = "rejected" /\ HasChained
                     \/ pc = "usage" /\ commands = <<>>

\* C9 witness: a list rejected for a chained command that follows a valid
\* command whose child was started
C9_Witness ==
  /\ pc = "rejected"
  /\ exitCode = 2
  /\ Len(commands) >= 2
  /\ commands[1] # ChainedCmd
  /\ child[1].state # "none"

\* ------------------------------------------------ C10: the validator
\* the quoting of sh: the state (open quote, escape pending) before
\* character i. A backslash escapes the next character outside quotes and
\* inside double quotes; inside single quotes every character but the
\* closing quote is literal. An unclosed span runs to the end.
RECURSIVE LexBefore(_, _)
LexBefore(s, i) ==
  IF i = 1 THEN <<NoQuote, FALSE>>
  ELSE LET st == LexBefore(s, i - 1)
           q == st[1]
           r == s[i - 1]
       IN IF st[2] THEN <<q, FALSE>>
          ELSE IF r = "\\" /\ q # "'" THEN <<q, TRUE>>
          ELSE IF q # NoQuote THEN <<IF r = q THEN NoQuote ELSE q, FALSE>>
          ELSE IF r \in Quotes THEN <<r, FALSE>>
          ELSE <<q, FALSE>>

\* C10: isChained returns true when the string contains one of ; | &
\* outside any quoted span and not escaped, and false when every such
\* character is inside quotes or preceded by an unescaped backslash.
C10_ChainedIffUnquotedOperator ==
  vout # "unset" =>
    (vout = "true" <=> \E i \in 1..Len(vin) :
                 vin[i] \in Operators /\ LexBefore(vin, i) = <<NoQuote, FALSE>>)


\* ------------------------------------------------ C11: escapes and quotes
\* the scanner of spec section 4.1: the state (open quote, escape pending)
\* before character i when a backslash escapes outside quotes only and an
\* open quote is closed by the next occurrence of the same character
RECURSIVE PlainLexBefore(_, _)
PlainLexBefore(s, i) ==
  IF i = 1 THEN <<NoQuote, FALSE>>
  ELSE LET st == PlainLexBefore(s, i - 1)
           q == st[1]
           r == s[i - 1]
       IN IF st[2] THEN <<q, FALSE>>
          ELSE IF q # NoQuote THEN <<IF r = q THEN NoQuote ELSE q, FALSE>>
          ELSE IF r = "\\" THEN <<q, TRUE>>
          ELSE IF r \in Quotes THEN <<r, FALSE>>
          ELSE <<q, FALSE>>

\* the number of backslashes that immediately precede position i
RECURSIVE BackslashRun(_, _)
BackslashRun(s, i) ==
  IF i > 1 /\ s[i - 1] = "\\" THEN 1 + BackslashRun(s, i - 1) ELSE 0

\* position i is immediately preceded by an unescaped backslash
EscapedAt(s, i) == BackslashRun(s, i) % 2 = 1

\* the quote character open before position i, when a quote character that
\* is escaped neither opens nor closes a span
RECURSIVE QuoteBefore(_, _)
QuoteBefore(s, i) ==
  IF i = 1 THEN NoQuote
  ELSE LET q == QuoteBefore(s, i - 1)
           r == s[i - 1]
       IN IF r \notin Quotes \/ EscapedAt(s, i - 1) THEN q
          ELSE IF q = NoQuote THEN r
          ELSE IF r = q THEN NoQuote
          ELSE q

\* C11 as stated: backslash escaping applies outside quotes only, an open
\* quote is closed by the first later occurrence of the same character and
\* nothing else in between affects the scan; so isChained is true exactly
\* when that scan meets an operator outside quotes and not escaped.
C11_EscapeOutsideQuotesOnly ==
  vout # "unset" =>
    (vout = "true" <=> \E i \in 1..Len(vin) :
        vin[i] \in Operators /\ PlainLexBefore(vin, i) = <<NoQuote, FALSE>>)

\* C11 amended: backslash escaping applies inside quotes too; an open quote
\* is closed by the first later occurrence of the same character that is
\* not escaped, and between the two no character but a backslash affects
\* the scan; isChained is true exactly when an operator is neither escaped
\* nor inside such a span.
C11_EscapeEverywhere ==
  vout # "unset" =>
    (vout = "true" <=> \E i \in 1..Len(vin) :
        /\ vin[i] \in Operators
        /\ ~EscapedAt(vin, i)
        /\ QuoteBefore(vin, i) = NoQuote)

\* C11 witness: a quote character escaped inside a span of its own kind did
\* not close the span, and the operator after it was taken as quoted
C11_Witness ==
  /\ vout = "false"
  /\ \E i \in 1..Len(vin) : \E j \in 1..Len(vin) :
       /\ i < j
       /\ vin[i] \in Quotes
       /\ EscapedAt(vin, i)
       /\ QuoteBefore(vin, i) = vin[i]
       /\ vin[j] \in Operators
       /\ ~EscapedAt(vin, j)
       /\ QuoteBefore(vin, j) = vin[i]


\* ------------------------------------------- C12: quoted operators accepted
\* C12: a command whose only ; | & characters lie inside a single- or
\* double-quoted span (every span closed, as sh delimits spans: a backslash
\* escapes inside double quotes and is literal inside single quotes) is
\* accepted, so the run does not end with exit code 2.
C12_QuotedOperatorsAccepted ==
  ( /\ vout # "unset"
    /\ \A i \in 1..Len(vin) :
         vin[i] \in Operators => LexBefore(vin, i)[1] # NoQuote
    /\ LexBefore(vin, Len(vin) + 1) = <<NoQuote, FALSE>> )
  => vout = "false"


\* ------------------------------------------------ C13: normal termination
\* C13: isNormalExit answers true exactly for a child that exited with
\* status code 0 (a nil error, or an exit status of 0) or was killed by
\* SIGINT or SIGTERM; every other status code, killing signal or encoding
\* is answered false.
C13_NormalIffZeroOrTermSignal ==
  vout # "unset" =>
    (vout = "true" <=>
       \/ vin = NilErr
       \/ vin = ExitedErr(0)
       \/ vin = SignaledErr(SIGINT)
       \/ vin = SignaledErr(SIGTERM))

\* C13 witness: a child killed by SIGTERM has been classified normal
C13_Witness == vout = "true" /\ vin = SignaledErr(SIGTERM)


\* --------------------------------------------- C14: every spawn has failed
\* C14: once the launch has gone through the whole list with no command
\* chained and no spawn successful, the supervisor is still about to leave
\* the launch or has exited with code 1; it is never in the event loop and
\* has issued no broadcast.
C14_NoSpawnExitsOne ==
  (Len(commands) > 0 /\ idx > Len(commands) /\ Started = {}) =>
    /\ pc \in {"launch", "nostart"}
    /\ exitCode = (IF pc = "nostart" THEN 1 ELSE NoCode)
    /\ subprocesses = <<>>
    /\ broadcasts = <<>>

\* C14 witness: every spawn failed and the supervisor has exited
C14_Witness ==
  /\ Len(commands) = MaxCmds
  /\ idx > Len(commands)
  /\ Started = {}
  /\ pc = "nostart"
  /\ exitCode = 1


\* ------------------------------------------- C15: a spawn failure is skipped
\* the commands the map holds an entry for
Recorded == {subprocesses[p] : p \in DOMAIN subprocesses}

\* the commands the launch went past without spawning them: cmd.Start
\* failed
SpawnFailed == {i \in 1..Len(commands) : i < idx /\ i \notin Started}

\* C15: when the spawn of some command has failed, that command has no
\* entry and no waiter; the commands after it are still attempted, so the
\* loop is entered only after the whole list was gone through; and the
\* loop runs over exactly the commands that spawned successfully.
C15_SpawnFailureNonFatal ==
  SpawnFailed # {} =>
    /\ \A i \in SpawnFailed : waiter[i] = "none" /\ i \notin Recorded
    /\ pc \in {"loop", "finished"} =>
         /\ idx > Len(commands)
         /\ Recorded = Started

\* ------------------------------------------------- C16: the loop drains
\* C16: when every launched child terminates, a run that has entered the
\* supervision loop reaches done, and for every launched child the waiter
\* delivers its completion event and the coordinator processes it.
C16_EveryEventProcessedLoopEnds ==
  /\ (pc = "loop") ~> (pc = "finished")
  /\ \A i \in Slots :
       (pc = "loop" /\ i \in Started) ~> (waiter[i] = "done" /\ ~proc[i].up)


\* ------------------------------------------------- C17: no escalation
\* C17: the supervisor never sends a second round of signals and never a
\* signal other than the one of the single broadcast (SIGTERM, or the
\* SIGINT or SIGTERM it relays), and it does not leave the supervision
\* loop while a child it launched has not terminated.
C17_NoEscalationNoExit ==
  /\ Len(broadcasts) <= 1
  /\ \A k \in 1..Len(broadcasts) : broadcasts[k].sig \in TermSignals
  /\ \A i \in Slots : child[i].got \subseteq {broadcasts[k].sig : k \in 1..Len(broadcasts)}
  /\ pc = "finished" => \A i \in Started : child[i].state # "running"


\* ------------------------------------------- C18: abort of the launch phase
\* C18: no command at or after the first chained command of the list is
\* ever spawned; and when the launch aborts at the first chained command,
\* at index idx, the supervisor exits 2 having sent no signal: the commands
\* before idx that spawned are left as they are.
C18_AbortLeavesEarlierRunning ==
  /\ \A i \in Started : \A j \in 1..i : ~isChained(commands[j])
  /\ pc = "rejected" =>
       /\ idx \in 1..Len(commands)
       /\ isChained(commands[idx])
       /\ \A j \in 1..(idx - 1) : ~isChained(commands[j])
       /\ Started \subseteq 1..(idx - 1)
       /\ exitCode = 2
       /\ broadcasts = <<>>
       /\ \A i \in Slots : child[i].got = {}

\* C18 witness: the launch aborted at the second command while the first,
\* spawned before, is still running
C18_Witness ==
  /\ pc = "rejected"
  /\ idx = 2
  /\ child[1].state = "running"
  /\ child[2].state = "none"


\* ------------------------------------------------ C19: return of the loop
\* C19: the supervision loop has returned only with the count of running
\* processes at zero, and then every subprocess recorded in the map is
\* marked not up and holds the outcome set when its completion event was
\* processed, its waiter having delivered that event.
C19_LoopReturnsWithAllProcessed ==
  pc = "finished" =>
    /\ runningProcesses = 0
    /\ \A i \in Recorded :
         /\ ~proc[i].up
         /\ waiter[i] = "done"
         /\ proc[i].err \in {NilErr, AbnormalExitErr}


\* ------------------------------------------- C20: exactly one broadcast
\* C20: whenever the count of running processes is zero in or after the
\* supervision loop, closing is true and exactly one broadcast has been
\* issued; so every run that leaves the loop has issued exactly one.
C20_ExactlyOneBroadcastAtZero ==
  (pc \in {"loop", "finished"} /\ runningProcesses = 0) =>
    (closing /\ Len(broadcasts) = 1)

\* C20 witness: a single launched child exited on its own, no signal was
\* received, and the run ended after one broadcast
C20_Witness ==
  /\ pc = "finished"
  /\ Cardinality(Started) = 1
  /\ delivered = 0
  /\ closing
  /\ Len(broadcasts) = 1
  /\ broadcasts[1].cause = "exit"


\* ---------------------------------------- C21: recipients of a broadcast
\* the completion event of subprocess i has been taken from the channel
\* by the coordinator in the state a step leads to
ProcessedNext(i) ==
  /\ waiter'[i] = "done"
  /\ \A k \in 1..Len(exitChan') : exitChan'[k] # i

\* C21: a step that makes a broadcast sends the signal to exactly the
\* entries of the map marked up at that moment: an entry whose completion
\* event has been processed (the one being processed included) is not a
\* recipient, every entry whose completion event has not been processed is
\* one, whether its child still runs or has terminated, and each recipient
\* that still runs receives the signal.
C21_BroadcastToExactlyUpEntries ==
  [][Len(broadcasts') > Len(broadcasts) =>
       LET b == broadcasts'[Len(broadcasts')] IN
         /\ BroadcastsNow(b.sig, b.pids)
         /\ b.pids \subseteq DOMAIN subprocesses
         /\ \A q \in DOMAIN subprocesses :
              /\ q \in b.pids <=> proc'[subprocesses[q]].up
              /\ q \in b.pids <=> ~ProcessedNext(subprocesses[q])]_vars

\* C21 witness: a broadcast had among its recipients a subprocess whose
\* child had already terminated, its completion event not yet processed
C21_Witness ==
  /\ Len(broadcasts) = 1
  /\ \E q \in broadcasts[1].pids :
       /\ q \in DOMAIN subprocesses
       /\ child[subprocesses[q]].state \in {"zombie", "reaped"}
       /\ child[subprocesses[q]].got = {}


\* ------------------------------------- C22: up and err of a subprocess
\* the step processes the completion event of subprocess i
ProcessesEventOf(i) ==
  /\ ExitEventStep
  /\ exitChan # <<>>
  /\ Head(exitChan) = i
  /\ exitChan' = Tail(exitChan)

\* C22: for a launched subprocess, up only ever changes from true to
\* false, and does so in the step that processes its completion event;
\* its err changes in that step only; and every processed completion
\* event, before or after the broadcast, is classified and counted.
C22_UpAndOutcomeSetOnce ==
  [][\A i \in Started :
       /\ proc'[i].up # proc[i].up =>
            (proc[i].up /\ ~proc'[i].up /\ ProcessesEventOf(i))
       /\ proc'[i].err # proc[i].err => ProcessesEventOf(i)
       /\ ProcessesEventOf(i) =>
            /\ proc[i].up /\ ~proc'[i].up
            /\ proc'[i].err = classify(proc[i].err)
            /\ runningProcesses' = runningProcesses - 1]_vars

\* ------------------------------------------ C23: who writes the entries
\* C23: a step of a waiter goroutine changes no field of any subprocess
\* entry, nor the map, the count or the closing flag; it only moves the
\* waiter on and, when it sends, adds its event to the exit channel.
C23_WaitersWriteNoEntry ==
  [][(\E i \in Slots : waiter[i] # "none" /\ waiter'[i] # waiter[i]) =>
       /\ proc' = proc
       /\ subprocesses' = subprocesses
       /\ runningProcesses' = runningProcesses
       /\ closing' = closing]_vars


\* ------------------------------------------------ C24: the running count
\* the entries of the map marked up
UpEntries == {q \in DOMAIN subprocesses : proc[subprocesses[q]].up}

\* C24: between two iterations of the supervision loop (and when it has
\* returned) runningProcesses is the number of map entries marked up and
\* is not negative; and taking a signal from the channel changes neither
\* the count nor the up flag or err of any subprocess.
C24_CountIsUpEntries ==
  /\ [](pc \in {"loop", "finished"} =>
          /\ runningProcesses = Cardinality(UpEntries)
          /\ runningProcesses >= 0)
  /\ [][SignalEventStep =>
          (runningProcesses' = runningProcesses /\ proc' = proc)]_vars


\* ------------------------------------------- C25: one entry per child
\* C25: every child spawned so far has its own entry in the map, so the
\* map has as many entries as there were successful spawns and as there
\* are waiters; and in the supervision loop the count of running processes
\* plus the number of completion events processed is that number.
C25_OneEntryPerSpawnedChild ==
  /\ Recorded = Started
  /\ Cardinality(DOMAIN subprocesses) = Cardinality(Started)
  /\ Cardinality(DOMAIN subprocesses) = Cardinality({i \in Slots : waiter[i] # "none"})
  /\ pc = "loop" =>
       runningProcesses + Cardinality({i \in Started : ~proc[i].up})
         = Cardinality(Started)

====
